---- MODULE Spec2Model ----
(***************************************************************************)
(* A model of pygaze/_eyetracker/eyelogic/ELApi.py: the ctypes binding of  *)
(* the EyeLogic client library.                                            *)
(*                                                                         *)
(* Two layers are modelled.                                                *)
(*  - The Python wrapper (class ELApi): what each method configures on the *)
(*    shared c_lib function objects (argtypes, restype), which native      *)
(*    entry point it calls, and how it converts the argument and the       *)
(*    returned integer.  This layer is translated from ELApi.py.           *)
(*  - The native session behind c_lib (ELCApi.dll): its connection,        *)
(*    tracking and calibration flags, its delivery thread and the server   *)
(*    and device it talks to.  The binary is not part of the sources, so   *)
(*    this layer follows the result-code documentation of ELApi.py and the *)
(*    contract of the specification.                                       *)
(***************************************************************************)
EXTENDS Integers, Sequences, FiniteSets, TLC

(***************************************************************************)
(* Bounds of the model.                                                    *)
(***************************************************************************)
\* a Python int argument is wraps * 2^32 + low, with wraps in 0..MaxWraps
MaxWraps == 1
\* frame-rate modes the server enumerates: 0 .. NumFrameRateModes-1
NumFrameRateModes == 1
\* calibration modes the server enumerates: 0 .. NumCalibrationModes-1
NumCalibrationModes == 1
\* values the bits 8..31 of the return register may hold after elIsConnected
MaxGarbage == 1
\* frames the device produces in one tracking period
MaxFrames == 2
\* frames lost between two produced frames, plus one
MaxGap == 2
\* events the delivery thread may have queued
MaxPending == 2
\* integers a native entry point may return when nothing constrains it
MaxNativeCode == 7

(***************************************************************************)
(* Program constants.                                                      *)
(***************************************************************************)
\* the largest value of a c_int32 field, 2^31 - 1
Int32Max == 2147483647
\* the weight of bit 8: the C bool of elIsConnected is the low byte (AL)
ByteWeight == 256

Int32Min == -Int32Max - 1

\* The ELApi object the client program constructs (the specification's
\* single session), and its caller threads.
Objs == {"api1"}
Threads == {"caller1", "caller2"}
FrameRateModes == 0..(NumFrameRateModes - 1)
CalibrationModes == 0..(NumCalibrationModes - 1)

\* The five callback slots of elInitApi, in argument order.
Slots == {"sample", "connectionClosed", "deviceConnected",
          "deviceDisconnected", "trackingStopped"}
\* The callback arguments a constructor call passes: the slots given a
\* non-null handler.
CallbackChoices == {{}, {"sample", "connectionClosed"}, Slots}

\* Python ints passed as a mode index: wraps * 2^32 + low.
PyInts == [wraps : 0..MaxWraps, low : -1..NumFrameRateModes]

VARIABLES
  \* ---- the Python side
  obj,        \* obj[o]: "none", "live" (constructed), "failed" (__init__ raised),
              \* "crashed" (the process died)
  pc,         \* pc[t]: "idle", "calibrate" (blocked in elCalibrate), "aborted",
              \* "connect" (blocked in elConnect)
  sig,        \* sig[f]: the argtypes and restype configured on c_lib.f
  last,       \* the last completed call: method, result, exception
  refs,       \* the callback objects passed to __init__: "caller" while the
              \* caller still references them, "released" once it dropped them
  \* ---- the native session
  inited,     \* elInitApi has created the session
  cbs,        \* the slots bound to a non-null handler
  connected,  \* the connection to the server is established
  tracking,   \* this client holds a tracking request
  calib,      \* a calibration in progress: "none", "self", "other"
  pending,    \* events queued for the delivery thread
  srvIndex,   \* the frame counter (int32) of the stream this client receives
  nFrames,    \* frames produced in this tracking period
  \* ---- the server and the device
  server,     \* a server is running and answers connection attempts
  device,     \* tracking hardware is attached
  \* ---- history
  sess,       \* "never", "up", "remoteClosed", "localClosed"
  seen,       \* the last two sample indices delivered in this tracking period
  wrapped,    \* the frame counter passed Int32Max in this tracking period
  scen        \* progress through connect, track, sample, unrequest, disconnect

natVars == <<inited, cbs, connected, tracking, calib, pending, srvIndex, nFrames>>
vars == <<obj, pc, sig, last, refs, inited, cbs, connected, tracking, calib, pending,
          srvIndex, nFrames, server, device, sess, seen, wrapped, scen>>

(***************************************************************************)
(* ctypes conversions.                                                     *)
(***************************************************************************)
\* A function object of c_lib before any method configured it:
\* argtypes is None and restype is c_int.
DefaultSig == [argtypes |-> "None", restype |-> "c_int"]

Entries == {"elInitApi", "elDestroyApi", "elConnect", "elDisconnect",
            "elIsConnected", "elRequestTracking", "elUnrequestTracking",
            "elCalibrate"}

\* A Python int passed where argtypes says c_int: ctypes keeps the low 32
\* bits and reads them as a signed int, so wraps * 2^32 + low arrives as low.
CInt(x) == x.low

\* Whether the Python int itself lies in 0 .. n-1.
InRange(x, n) == x.wraps = 0 /\ x.low \in 0..(n - 1)

\* What ctypes hands back for the register a native bool function leaves:
\* al is the C bool (the low byte), upper the bits above it, which the
\* callee does not define.  restype c_bool reads the low byte only; restype
\* c_int reads all 32 bits.
FromRegister(restype, al, upper) ==
  IF restype = "c_bool" THEN al ELSE al + ByteWeight * upper

\* Python's truth value of a returned number.
Truthy(v) == v # 0

\* ELCGazeSample.index is declared c_int32: the callback reads the 32 bits
\* the native layer wrote as a signed int.
ELCGazeSample_index_c_int16(raw) ==
  IF raw % 65536 >= 32768 THEN (raw % 65536) - 65536 ELSE raw % 65536
ELCGazeSample_index(raw) == raw

\* Enum lookup by value: a member for a listed value, ValueError otherwise.
ReturnConnect_noTimeout(v) ==
  CASE v = 0 -> "SUCCESS"
    [] v = 1 -> "NOT_INITED"
    [] v = 2 -> "ALREADY_CONNECTED"
    [] v = 3 -> "VERSION_MISMATCH"
    [] OTHER -> "ValueError"
ReturnConnect_swapped(v) ==
  CASE v = 0 -> "SUCCESS"
    [] v = 1 -> "NOT_INITED"
    [] v = 2 -> "VERSION_MISMATCH"
    [] v = 3 -> "ALREADY_CONNECTED"
    [] v = 4 -> "TIMEOUT"
    [] OTHER -> "ValueError"
ReturnConnect(v) ==
  CASE v = 0 -> "SUCCESS"
    [] v = 1 -> "NOT_INITED"
    [] v = 2 -> "ALREADY_CONNECTED"
    [] v = 3 -> "VERSION_MISMATCH"
    [] v = 4 -> "TIMEOUT"
    [] OTHER -> "ValueError"

ReturnStart_asConnect(v) == ReturnConnect(v)
ReturnStart_fromOne(v) ==
  CASE v = 1 -> "SUCCESS"
    [] v = 2 -> "NOT_CONNECTED"
    [] v = 3 -> "DEVICE_MISSING"
    [] v = 4 -> "INVALID_FRAMERATE_MODE"
    [] v = 5 -> "ALREADY_RUNNING_DIFFERENT_FRAMERATE"
    [] v = 6 -> "FAILURE"
    [] OTHER -> "ValueError"
ReturnStart(v) ==
  CASE v = 0 -> "SUCCESS"
    [] v = 1 -> "NOT_CONNECTED"
    [] v = 2 -> "DEVICE_MISSING"
    [] v = 3 -> "INVALID_FRAMERATE_MODE"
    [] v = 4 -> "ALREADY_RUNNING_DIFFERENT_FRAMERATE"
    [] v = 5 -> "FAILURE"
    [] OTHER -> "ValueError"

ReturnCalibrate_asStart(v) == ReturnStart(v)
ReturnCalibrate_swapped(v) ==
  CASE v = 0 -> "SUCCESS"
    [] v = 1 -> "NOT_TRACKING"
    [] v = 2 -> "NOT_CONNECTED"
    [] v = 3 -> "INVALID_CALIBRATION_MODE"
    [] v = 4 -> "ALREADY_CALIBRATING"
    [] v = 5 -> "FAILURE"
    [] OTHER -> "ValueError"
ReturnCalibrate(v) ==
  CASE v = 0 -> "SUCCESS"
    [] v = 1 -> "NOT_CONNECTED"
    [] v = 2 -> "NOT_TRACKING"
    [] v = 3 -> "INVALID_CALIBRATION_MODE"
    [] v = 4 -> "ALREADY_CALIBRATING"
    [] v = 5 -> "FAILURE"
    [] OTHER -> "ValueError"

\* The record of a completed call.  ret is the enum member (or "None" for a
\* method without a result, "int" for a number held in val); exc is the
\* exception that left the method, "none" when it returned.
Returned(op, ret) == [op |-> op, ret |-> ret, val |-> 0, exc |-> "none", code |-> 0]
ReturnedInt(op, v) == [op |-> op, ret |-> "int", val |-> v, exc |-> "none", code |-> 0]
Raised(op, exc) == [op |-> op, ret |-> "none", val |-> 0, exc |-> exc, code |-> 0]
\* `return Enum(c_lib.f(...))`: the member for the integer `code` the native
\* call returned, or the ValueError of the lookup.
EnumResult(op, member, code) ==
  IF member = "ValueError"
  THEN [op |-> op, ret |-> "none", val |-> 0, exc |-> "ValueError", code |-> code]
  ELSE [op |-> op, ret |-> member, val |-> 0, exc |-> "none", code |-> code]

(***************************************************************************)
(* The native session (ELCApi.dll).  Every operator of this section is     *)
(* written from the documentation of the result codes and from the         *)
(* contract of the specification, not from code.                           *)
(***************************************************************************)
Event(kind, index) == [kind |-> kind, index |-> index]

\* The queue without its sample events: samples are delivered only while the
\* client holds a tracking request.
Purge(q) == SelectSeq(q, LAMBDA e : e.kind # "sample")

\* Every caller blocked in a calibration that ends without a result.
Aborted == [t \in Threads |-> IF pc[t] = "calibrate" THEN "aborted" ELSE pc[t]]

\* The frame counter is an int32: it increases by gap and wraps at Int32Max.
NextIndex(i, gap) ==
  IF i > Int32Max - gap THEN Int32Min + (gap - 1 - (Int32Max - i)) ELSE i + gap

\* The frame counter when this client joins the tracking stream: a fresh
\* and servers that have been producing frames for a long time.
InitIndexes == {0, 32766, Int32Max - 1}

\* elInitApi(name, five callbacks): creates the session and binds the slots.
\* A second call while a session exists changes nothing.
elInitApi(handlers) ==
  /\ inited' = TRUE
  /\ cbs' = IF inited THEN cbs ELSE handlers
  /\ UNCHANGED <<connected, tracking, calib, pending, srvIndex, nFrames, pc>>

\* elDestroyApi(): releases the session with everything it holds.
elDestroyApi ==
  /\ inited' = FALSE
  /\ cbs' = {}
  /\ connected' = FALSE
  /\ tracking' = FALSE
  /\ calib' = "none"
  /\ pc' = Aborted
  /\ pending' = <<>>
  /\ srvIndex' = 0
  /\ nFrames' = 0

\* elConnect(): the result code, and the connection on SUCCESS.
\* Without a session 1, with a connection 2; otherwise whatever the server
\* makes of the attempt: it answers (0), it is of an older protocol version
\* (3), or it does not respond in time (4).  Without a server the internal
\* timeout of the attempt is all that can end it.
elConnectCodes ==
  IF ~inited THEN {1}
  ELSE IF connected THEN {2}
  ELSE IF server THEN {0, 3, 4}
  ELSE {4}

elConnect(code) ==
  /\ code \in elConnectCodes
  /\ connected' = (connected \/ code = 0)
  /\ UNCHANGED <<inited, cbs, tracking, calib, pending, srvIndex, nFrames, pc>>

\* elDisconnect(): ends the connection, this client's tracking request and
\* calibration, and everything queued for delivery.
elDisconnect ==
  /\ connected' = FALSE
  /\ tracking' = FALSE
  /\ calib' = "none"
  /\ pc' = Aborted
  /\ pending' = <<>>
  /\ srvIndex' = 0
  /\ nFrames' = 0
  /\ UNCHANGED <<inited, cbs>>

\* elIsConnected(): the C bool left in the low byte of the return register.
elIsConnected == IF connected THEN 1 ELSE 0

\* elRequestTracking(mode): the codes that reject the request.
elRequestTrackingReject(m) ==
  IF ~connected THEN 1
  ELSE IF m \notin FrameRateModes THEN 3
  ELSE IF ~device THEN 2
  ELSE 0

\* The codes of a request the server accepts as well-formed: tracking starts
\* (or is joined), the device fails, or another client already runs the
\* device at a different one of the frame-rate modes.
elRequestTrackingAccept == IF NumFrameRateModes > 1 THEN {0, 4, 5} ELSE {0, 5}

elRequestTracking(m, code) ==
  /\ code \in (IF elRequestTrackingReject(m) # 0
               THEN {elRequestTrackingReject(m)} ELSE elRequestTrackingAccept)
  /\ tracking' = (tracking \/ code = 0)
  /\ srvIndex' \in (IF code = 0 /\ ~tracking THEN InitIndexes ELSE {srvIndex})
  /\ UNCHANGED <<inited, cbs, connected, calib, pending, nFrames, pc>>

\* elUnrequestTracking(): withdraws this client's request; the device keeps
\* running when another client still requests tracking.
elUnrequestTracking ==
  /\ tracking' = FALSE
  /\ calib' = IF tracking THEN "none" ELSE calib
  /\ pc' = IF tracking THEN Aborted ELSE pc
  /\ pending' = Purge(pending)
  /\ srvIndex' = 0
  /\ nFrames' = 0
  /\ UNCHANGED <<inited, cbs, connected>>

\* elCalibrate(mode): the codes that reject the call at once; 0 when the
\* calibration starts and the call blocks.
elCalibrateReject(m) ==
  IF calib # "none" THEN 4
  ELSE IF ~connected THEN 1
  ELSE IF ~tracking THEN 2
  ELSE IF m \notin CalibrationModes THEN 3
  ELSE 0

\* The code a blocked elCalibrate call ends with.
elCalibrateEnd(t) == IF pc[t] = "aborted" THEN {5} ELSE {0, 5}

\* elCalibrate(mode) up to the point where it rejects the call or blocks.
elCalibrate(t, m, code) ==
  /\ code = elCalibrateReject(m)
  /\ calib' = IF code = 0 THEN "self" ELSE calib
  /\ pc' = IF code = 0 THEN [pc EXCEPT ![t] = "calibrate"] ELSE pc
  /\ UNCHANGED <<inited, cbs, connected, tracking, pending, srvIndex, nFrames>>

(***************************************************************************)
(* History kept for the properties.                                        *)
(***************************************************************************)
\* The last two delivered indices, after v was delivered.
Seen2(s, v) == IF s = <<>> THEN <<v>> ELSE <<s[Len(s)], v>>

\* Progress through: connect (SUCCESS), requestTracking(0) (SUCCESS), a
\* sample, unrequestTracking(), disconnect().
ScenAfter(ev) ==
  CASE ev = "connectOK" -> 1
    [] ev = "track0OK" -> IF scen = 1 THEN 2 ELSE 0
    [] ev = "sample" -> IF scen \in {2, 3} THEN 3 ELSE scen
    [] ev = "unrequest" -> IF scen = 3 THEN 4 ELSE 0
    [] ev = "disconnect" -> IF scen = 4 THEN 5 ELSE 0
    [] ev = "query" -> scen
    [] ev = "world" -> IF scen = 5 THEN 5 ELSE 0
    [] OTHER -> 0

(***************************************************************************)
(* The methods of class ELApi.                                             *)
(***************************************************************************)
SetSig(f, a, r) == [sig EXCEPT ![f] = [argtypes |-> a, restype |-> r]]

\* Some caller thread is free to issue a call.
Idle == \E t \in Threads : pc[t] = "idle"

\* Some ELApi object is there to call a method on.  The methods read and
\* write only the module-level c_lib, so which object it is does not matter.
Live == \E o \in Objs : obj[o] = "live"

\* What a constructor call passes for the five callbacks: handlers for the
\* slots in `handlers`; for the others a null function pointer ("NULL") or
\* Python's None.
CallbackArgs == [handlers : CallbackChoices, nulls : {"NULL", "None"}]

\* The callback objects an ELApi instance keeps a reference to: __init__
\* passes its five callback arguments to elInitApi and assigns no attribute.
ELApi_callbackRefs == {}

\* The callback object bound to a slot still exists: the caller or the
\* instance references it.
Alive(slot) == refs = "caller" \/ slot \in ELApi_callbackRefs

\* ELApi.__init__(clientName, five callbacks).  clientName.encode raises
\* AttributeError for None, before c_lib is touched; ctypes raises
\* ArgumentError for a None where argtypes names a CFUNCTYPE, before the
\* native call.  The object exists either way and is finalized later.
ELApi_init(o, name, arg) ==
  /\ Idle
  /\ obj[o] = "none"
  /\ IF name = "None"
     THEN /\ obj' = [obj EXCEPT ![o] = "failed"]
          /\ last' = Raised("init", "AttributeError")
          /\ UNCHANGED <<sig, pc>>
          /\ UNCHANGED natVars
     ELSE /\ sig' = SetSig("elInitApi", "[c_char_p, 5 callbacks]", "c_int")
          /\ IF arg.nulls = "None" /\ arg.handlers # Slots
             THEN /\ obj' = [obj EXCEPT ![o] = "failed"]
                  /\ last' = Raised("init", "ArgumentError")
                  /\ UNCHANGED <<pc>>
                  /\ UNCHANGED natVars
             ELSE /\ obj' = [obj EXCEPT ![o] = "live"]
                  /\ last' = Returned("init", "None")
                  /\ elInitApi(arg.handlers)
  /\ scen' = ScenAfter("init")
  /\ UNCHANGED <<device, sess, seen, wrapped>>
  /\ UNCHANGED <<refs, server>>

\* ELApi.__del__(): runs for every object that was created, also for one
\* whose __init__ raised, once no caller is inside a method.
ELApi_del(o) ==
  /\ obj[o] \in {"live", "failed"}
  /\ \A t \in Threads : pc[t] = "idle"
  /\ obj' = [obj EXCEPT ![o] = "none"]
  /\ last' = Returned("del", "None")
  /\ elDestroyApi
  /\ sess' = IF sess = "never" THEN "never" ELSE "localClosed"
  /\ seen' = <<>>
  /\ wrapped' = FALSE
  /\ scen' = ScenAfter("del")
  /\ UNCHANGED <<sig, device>>
  /\ refs' = "caller"
  /\ UNCHANGED server

\* The caller drops its references to the callback objects it passed to the
\* constructor (they were temporaries, or the variables went out of scope):
\* Python frees every one of them that nothing else references.
ReleaseCallbacks ==
  /\ Live
  /\ refs = "caller"
  /\ cbs # {}
  /\ refs' = "released"
  /\ UNCHANGED <<obj, pc, sig, last, server, device, sess, seen, wrapped, scen>>
  /\ UNCHANGED natVars

\* ELApi.connect()
connect_reinitializes ==
  /\ Idle
  /\ Live
  /\ sig' = SetSig("elConnect", "[]", "c_int")
  /\ \E code \in 0..4 :
       /\ code \in elConnectCodes
       /\ connected' = (connected \/ code = 0)
       /\ cbs' = {}
       /\ UNCHANGED <<inited, tracking, calib, pending, srvIndex, nFrames, pc>>
       /\ last' = EnumResult("connect", ReturnConnect(code), code)
       /\ sess' = IF code = 0 THEN "up" ELSE sess
       /\ scen' = IF code = 0 THEN ScenAfter("connectOK") ELSE ScenAfter("connect")
  /\ UNCHANGED <<obj, device, seen, wrapped>>
  /\ UNCHANGED <<refs, server>>
connect ==
  /\ Idle
  /\ Live
  /\ sig' = SetSig("elConnect", "[]", "c_int")
  /\ \E code \in 0..4 :
       /\ elConnect(code)
       /\ last' = EnumResult("connect", ReturnConnect(code), code)
       /\ sess' = IF code = 0 THEN "up" ELSE sess
       /\ scen' = IF code = 0 THEN ScenAfter("connectOK") ELSE ScenAfter("connect")
  /\ UNCHANGED <<obj, device, seen, wrapped>>
  /\ UNCHANGED <<refs, server>>

\* ELApi.disconnect()
disconnect_raisesWhenDisconnected ==
  /\ Idle
  /\ Live
  /\ sig' = SetSig("elDisconnect", "[]", "None")
  /\ elDisconnect
  /\ last' = IF connected THEN Returned("disconnect", "None")
             ELSE Raised("disconnect", "RuntimeError")
  /\ sess' = IF sess = "never" THEN "never" ELSE "localClosed"
  /\ seen' = <<>>
  /\ wrapped' = FALSE
  /\ scen' = ScenAfter("disconnect")
  /\ UNCHANGED <<obj, device>>
  /\ UNCHANGED <<refs, server>>
disconnect_callsIsConnected ==
  /\ Idle
  /\ Live
  /\ sig' = SetSig("elDisconnect", "[]", "None")
  /\ last' = Returned("disconnect", "None")
  /\ sess' = IF sess = "never" THEN "never" ELSE "localClosed"
  /\ seen' = <<>>
  /\ wrapped' = FALSE
  /\ scen' = ScenAfter("disconnect")
  /\ UNCHANGED <<obj, pc, device>>
  /\ UNCHANGED natVars
  /\ UNCHANGED <<refs, server>>
disconnect ==
  /\ Idle
  /\ Live
  /\ sig' = SetSig("elDisconnect", "[]", "None")
  /\ elDisconnect
  /\ last' = Returned("disconnect", "None")
  /\ sess' = IF sess = "never" THEN "never" ELSE "localClosed"
  /\ seen' = <<>>
  /\ wrapped' = FALSE
  /\ scen' = ScenAfter("disconnect")
  /\ UNCHANGED <<obj, device>>
  /\ UNCHANGED <<refs, server>>

\* ELApi.isConnected(): configures c_lib.elDisconnect, then calls
\* c_lib.elIsConnected, whose restype nobody configured.
isConnected ==
  /\ Idle
  /\ Live
  /\ sig' = SetSig("elDisconnect", "[]", "c_bool")
  /\ \E upper \in 0..MaxGarbage :
       last' = ReturnedInt("isConnected",
                 FromRegister(sig["elIsConnected"].restype, elIsConnected, upper))
  /\ scen' = ScenAfter("query")
  /\ UNCHANGED <<obj, pc, device, sess, seen, wrapped>>
  /\ UNCHANGED natVars
  /\ UNCHANGED <<refs, server>>

\* ELApi.requestTracking(frameRateModeInd)
requestTracking(x) ==
  /\ Idle
  /\ Live
  /\ sig' = SetSig("elRequestTracking", "[c_int]", "c_int")
  /\ \E code \in 0..5 :
       /\ elRequestTracking(CInt(x), code)
       /\ last' = EnumResult("requestTracking", ReturnStart(code), code)
       /\ seen' = IF code = 0 /\ ~tracking THEN <<>> ELSE seen
       /\ wrapped' = IF code = 0 /\ ~tracking THEN FALSE ELSE wrapped
       /\ scen' = IF code = 0 /\ x = [wraps |-> 0, low |-> 0]
                  THEN ScenAfter("track0OK") ELSE ScenAfter("requestTracking")
  /\ UNCHANGED <<obj, device, sess>>
  /\ UNCHANGED <<refs, server>>

\* ELApi.unrequestTracking()
unrequestTracking_callsDisconnect ==
  /\ Idle
  /\ Live
  /\ sig' = SetSig("elUnrequestTracking", "[]", "None")
  /\ elDisconnect
  /\ last' = Returned("unrequestTracking", "None")
  /\ seen' = <<>>
  /\ wrapped' = FALSE
  /\ scen' = ScenAfter("unrequest")
  /\ UNCHANGED <<obj, device, sess>>
  /\ UNCHANGED <<refs, server>>
unrequestTracking ==
  /\ Idle
  /\ Live
  /\ sig' = SetSig("elUnrequestTracking", "[]", "None")
  /\ elUnrequestTracking
  /\ last' = Returned("unrequestTracking", "None")
  /\ seen' = <<>>
  /\ wrapped' = FALSE
  /\ scen' = ScenAfter("unrequest")
  /\ UNCHANGED <<obj, device, sess>>
  /\ UNCHANGED <<refs, server>>

\* ELApi.calibrate(calibrationModeInd), to the point where the native call
\* has rejected the request (the method returns) or blocks.
calibrate(t, x) ==
  /\ pc[t] = "idle"
  /\ Live
  /\ sig' = SetSig("elCalibrate", "[c_int]", "c_int")
  /\ \E code \in 0..4 :
       /\ elCalibrate(t, CInt(x), code)
       /\ last' = IF code = 0 THEN last
                  ELSE EnumResult("calibrate", ReturnCalibrate(code), code)
  /\ scen' = ScenAfter("calibrate")
  /\ UNCHANGED <<obj, device, sess, seen, wrapped>>
  /\ UNCHANGED <<refs, server>>

\* The blocked native call of calibrate() ends and the method returns.
calibrateReturn(t) ==
  /\ pc[t] \in {"calibrate", "aborted"}
  /\ \E code \in elCalibrateEnd(t) :
       last' = EnumResult("calibrate", ReturnCalibrate(code), code)
  /\ calib' = IF pc[t] = "calibrate" THEN "none" ELSE calib
  /\ pc' = [pc EXCEPT ![t] = "idle"]
  /\ scen' = ScenAfter("calibrate")
  /\ UNCHANGED <<obj, sig, inited, cbs, connected, tracking, pending, srvIndex,
                 nFrames, device, sess, seen, wrapped>>
  /\ UNCHANGED <<refs, server>>

(***************************************************************************)
(* The server, the device and the delivery thread of the native layer     *)
(* (written from the specification, as the native session above).          *)
(***************************************************************************)
\* The server ends the connection: the connection-closed event is queued.
ServerDown ==
  /\ connected
  /\ Len(Purge(pending)) < MaxPending
  /\ connected' = FALSE
  /\ tracking' = FALSE
  /\ calib' = "none"
  /\ pc' = Aborted
  /\ pending' = Append(Purge(pending), Event("connectionClosed", 0))
  /\ srvIndex' = 0
  /\ nFrames' = 0
  /\ seen' = <<>>
  /\ wrapped' = FALSE
  /\ scen' = ScenAfter("world")
  /\ UNCHANGED <<obj, sig, last, inited, cbs, device, sess>>
  /\ UNCHANGED <<refs, server>>

\* Tracking hardware is attached.
DeviceAttach ==
  /\ ~device
  /\ device' = TRUE
  /\ IF connected
     THEN /\ Len(pending) < MaxPending
          /\ pending' = Append(pending, Event("deviceConnected", 0))
     ELSE UNCHANGED pending
  /\ scen' = ScenAfter("world")
  /\ UNCHANGED <<obj, pc, sig, last, inited, cbs, connected, tracking, calib,
                 srvIndex, nFrames, sess, seen, wrapped>>
  /\ UNCHANGED <<refs, server>>

\* Tracking hardware is removed: tracking in progress stops.
DeviceDetach ==
  /\ device
  /\ device' = FALSE
  /\ tracking' = FALSE
  /\ calib' = IF tracking THEN "none" ELSE calib
  /\ pc' = IF tracking THEN Aborted ELSE pc
  /\ IF connected
     THEN /\ Len(Purge(pending)) + (IF tracking THEN 2 ELSE 1) <= MaxPending
          /\ pending' = Purge(pending) \o <<Event("deviceDisconnected", 0)>>
                          \o (IF tracking THEN <<Event("trackingStopped", 0)>> ELSE <<>>)
     ELSE UNCHANGED pending
  /\ srvIndex' = 0
  /\ nFrames' = 0
  /\ seen' = <<>>
  /\ wrapped' = FALSE
  /\ scen' = ScenAfter("world")
  /\ UNCHANGED <<obj, sig, last, inited, cbs, connected, sess>>
  /\ UNCHANGED <<refs, server>>

\* Another client's calibration starts on the server this client tracks
\* with, and ends.
OtherCalibrate ==
  /\ connected
  /\ tracking
  /\ calib = "none"
  /\ calib' = "other"
  /\ UNCHANGED <<obj, pc, sig, last, inited, cbs, connected, tracking, pending, srvIndex,
                 nFrames, device, sess, seen, wrapped, scen>>
  /\ UNCHANGED <<refs, server>>

OtherCalibrateDone ==
  /\ calib = "other"
  /\ calib' = "none"
  /\ UNCHANGED <<obj, pc, sig, last, inited, cbs, connected, tracking, pending, srvIndex,
                 nFrames, device, sess, seen, wrapped, scen>>
  /\ UNCHANGED <<refs, server>>

\* The device produces a frame for this client; gap - 1 frames before it
\* were dropped.
ProduceFrame(gap) ==
  /\ connected
  /\ tracking
  /\ nFrames < MaxFrames
  /\ Len(pending) < MaxPending
  /\ srvIndex' = NextIndex(srvIndex, gap)
  /\ nFrames' = nFrames + 1
  /\ pending' = Append(pending, Event("sample", srvIndex'))
  /\ wrapped' = (wrapped \/ srvIndex > Int32Max - gap)
  /\ UNCHANGED <<obj, pc, sig, last, inited, cbs, connected, tracking, calib,
                 device, sess, seen, scen>>
  /\ UNCHANGED <<refs, server>>

\* The delivery thread takes the next event and calls the handler bound to
\* its slot, if there is one.  The connection-closed event of a connection
\* the client has replaced since does not close the session it has now.
Fires == pending # <<>> /\ Head(pending).kind \in cbs

Deliver ==
  /\ pending # <<>>
  /\ pending' = Tail(pending)
  /\ LET e == Head(pending) IN
       /\ sess' = IF e.kind = "connectionClosed" /\ sess = "up" /\ ~connected
                  THEN "remoteClosed" ELSE sess
       /\ seen' = IF e.kind = "sample" /\ Fires
                  THEN Seen2(seen, ELCGazeSample_index(e.index)) ELSE seen
       /\ scen' = IF e.kind = "sample" /\ Fires THEN ScenAfter("sample") ELSE scen
  /\ UNCHANGED <<obj, pc, sig, last, inited, cbs, connected, tracking, calib,
                 srvIndex, nFrames, device, wrapped>>
  /\ UNCHANGED <<refs, server>>

\* The delivery thread calls through the function pointer of a callback
\* object that was freed.  What happens is not defined: the handler may
\* still run (Deliver), or the process dies, and with it the session.
DeliverCrash ==
  /\ Fires
  /\ ~Alive(Head(pending).kind)
  /\ obj' = [o \in Objs |-> "crashed"]
  /\ pc' = [t \in Threads |-> "idle"]
  /\ sig' = [f \in Entries |-> DefaultSig]
  /\ last' = Raised("callback", "crash")
  /\ refs' = "caller"
  /\ inited' = FALSE
  /\ cbs' = {}
  /\ connected' = FALSE
  /\ tracking' = FALSE
  /\ calib' = "none"
  /\ pending' = <<>>
  /\ srvIndex' = 0
  /\ nFrames' = 0
  /\ seen' = <<>>
  /\ wrapped' = FALSE
  /\ scen' = 0
  /\ UNCHANGED <<server, device, sess>>

(***************************************************************************)
(* The specification.                                                      *)
(***************************************************************************)
Init ==
  /\ obj = [o \in Objs |-> "none"]
  /\ pc = [t \in Threads |-> "idle"]
  /\ sig = [f \in Entries |-> DefaultSig]
  /\ last = Returned("none", "None")
  /\ refs = "caller"
  /\ inited = FALSE
  /\ cbs = {}
  /\ connected = FALSE
  /\ tracking = FALSE
  /\ calib = "none"
  /\ pending = <<>>
  /\ srvIndex = 0
  /\ nFrames = 0
  /\ server \in BOOLEAN
  /\ device \in BOOLEAN
  /\ sess = "never"
  /\ seen = <<>>
  /\ wrapped = FALSE
  /\ scen = 0

\* A client program with one ELApi object: the single session of the
\* specification.
Next ==
  \/ \E o \in Objs, name \in {"None", "str"}, arg \in CallbackArgs : ELApi_init(o, name, arg)
  \/ \E o \in Objs : ELApi_del(o)
  \/ ReleaseCallbacks
  \/ connect
  \/ disconnect
  \/ isConnected
  \/ \E x \in PyInts : requestTracking(x)
  \/ unrequestTracking
  \/ \E t \in Threads, x \in PyInts : calibrate(t, x)
  \/ \E t \in Threads : calibrateReturn(t)
  \/ ServerDown
  \/ DeviceAttach
  \/ DeviceDetach
  \/ OtherCalibrate
  \/ OtherCalibrateDone
  \/ \E gap \in 1..MaxGap : ProduceFrame(gap)
  \/ Deliver
  \/ DeliverCrash

Spec == Init /\ [][Next]_vars

(***************************************************************************)
(* A client program with a second ELApi object that has been finalized.    *)
(* c_lib is module-level, so both objects share one native session, and    *)
(* the __del__ of the second destroyed it: the object left is live and the *)
(* session is not initialized.                                             *)
(***************************************************************************)
InitOrder ==
  /\ obj = [o \in Objs |-> "live"]
  /\ pc = [t \in Threads |-> "idle"]
  /\ sig = [[f \in Entries |-> DefaultSig] EXCEPT
              !["elInitApi"] = [argtypes |-> "[c_char_p, 5 callbacks]", restype |-> "c_int"]]
  /\ last = Returned("del", "None")
  /\ refs = "caller"
  /\ inited = FALSE
  /\ cbs = {}
  /\ connected = FALSE
  /\ tracking = FALSE
  /\ calib = "none"
  /\ pending = <<>>
  /\ srvIndex = 0
  /\ nFrames = 0
  /\ server \in BOOLEAN
  /\ device \in BOOLEAN
  /\ sess = "never"
  /\ seen = <<>>
  /\ wrapped = FALSE
  /\ scen = 0

SpecOrder == InitOrder /\ [][Next]_vars

(***************************************************************************)
(* connect() as the blocking call it is: the caller enters elConnect and   *)
(* stays there until the native layer has an answer of the server or its   *)
(* internal timeout expires.  Other callers, the server and the delivery   *)
(* thread go on meanwhile.                                                 *)
(***************************************************************************)
\* ELApi.connect() up to the native call.
connectCall(t) ==
  /\ pc[t] = "idle"
  /\ Live
  /\ sig' = SetSig("elConnect", "[]", "c_int")
  /\ pc' = [pc EXCEPT ![t] = "connect"]
  /\ UNCHANGED <<obj, last, refs, server, device, sess, seen, wrapped, scen>>
  /\ UNCHANGED natVars

\* The native call ends and ELApi.connect() returns the member for its code.
connectReturn_untilEstablished(t) ==
  /\ pc[t] = "connect"
  /\ 0 \in elConnectCodes
  /\ connected' = TRUE
  /\ pc' = [pc EXCEPT ![t] = "idle"]
  /\ last' = EnumResult("connect", ReturnConnect(0), 0)
  /\ sess' = "up"
  /\ scen' = ScenAfter("connectOK")
  /\ UNCHANGED <<inited, cbs, tracking, calib, pending, srvIndex, nFrames>>
  /\ UNCHANGED <<obj, sig, refs, server, device, seen, wrapped>>
connectReturn(t) ==
  /\ pc[t] = "connect"
  /\ \E code \in 0..4 :
       /\ code \in elConnectCodes
       /\ connected' = (connected \/ code = 0)
       /\ last' = EnumResult("connect", ReturnConnect(code), code)
       /\ sess' = IF code = 0 THEN "up" ELSE sess
       /\ scen' = IF code = 0 THEN ScenAfter("connectOK") ELSE ScenAfter("connect")
  /\ pc' = [pc EXCEPT ![t] = "idle"]
  /\ UNCHANGED <<inited, cbs, tracking, calib, pending, srvIndex, nFrames>>
  /\ UNCHANGED <<obj, sig, refs, server, device, seen, wrapped>>

NextLive ==
  \/ \E o \in Objs, name \in {"None", "str"}, arg \in CallbackArgs : ELApi_init(o, name, arg)
  \/ \E o \in Objs : ELApi_del(o)
  \/ \E t \in Threads : connectCall(t)
  \/ \E t \in Threads : connectReturn(t)
  \/ disconnect
  \/ isConnected
  \/ ServerDown
  \/ DeviceAttach
  \/ DeviceDetach
  \/ Deliver

\* The native layer is fair to a caller inside elConnect: the attempt ends,
\* by an answer or by the internal timeout.
SpecLive ==
  /\ Init
  /\ [][NextLive]_vars
  /\ \A t \in Threads : WF_vars(connectReturn(t))

(***************************************************************************)
(* The result conversion of the blocking methods on its own.  restype      *)
(* c_int lets the native call hand back any 32-bit integer; here nothing   *)
(* constrains it, and the native session is left alone.                    *)
(***************************************************************************)
NativeInts == -1..MaxNativeCode

connectConv(code) ==
  /\ Live
  /\ sig' = SetSig("elConnect", "[]", "c_int")
  /\ last' = EnumResult("connect", ReturnConnect(code), code)
  /\ UNCHANGED <<obj, pc, inited, cbs, connected, tracking, calib, pending, srvIndex,
                 nFrames, device, sess, seen, wrapped, scen>>
  /\ UNCHANGED <<refs, server>>

requestTrackingConv(x, code) ==
  /\ Live
  /\ sig' = SetSig("elRequestTracking", "[c_int]", "c_int")
  /\ last' = EnumResult("requestTracking", ReturnStart(code), code)
  /\ UNCHANGED <<obj, pc, inited, cbs, connected, tracking, calib, pending, srvIndex,
                 nFrames, device, sess, seen, wrapped, scen>>
  /\ UNCHANGED <<refs, server>>

calibrateConv(x, code) ==
  /\ Live
  /\ sig' = SetSig("elCalibrate", "[c_int]", "c_int")
  /\ last' = EnumResult("calibrate", ReturnCalibrate(code), code)
  /\ UNCHANGED <<obj, pc, inited, cbs, connected, tracking, calib, pending, srvIndex,
                 nFrames, device, sess, seen, wrapped, scen>>
  /\ UNCHANGED <<refs, server>>

\* The state after ELApi("name", five handlers) returned.
InitConv ==
  /\ obj = [o \in Objs |-> "live"]
  /\ pc = [t \in Threads |-> "idle"]
  /\ sig = [[f \in Entries |-> DefaultSig] EXCEPT
              !["elInitApi"] = [argtypes |-> "[c_char_p, 5 callbacks]", restype |-> "c_int"]]
  /\ last = Returned("init", "None")
  /\ refs = "caller"
  /\ inited = TRUE
  /\ cbs = Slots
  /\ connected = FALSE
  /\ tracking = FALSE
  /\ calib = "none"
  /\ pending = <<>>
  /\ srvIndex = 0
  /\ nFrames = 0
  /\ server \in BOOLEAN
  /\ device \in BOOLEAN
  /\ sess = "never"
  /\ seen = <<>>
  /\ wrapped = FALSE
  /\ scen = 0

NextConv ==
  \/ \E code \in NativeInts : connectConv(code)
  \/ \E x \in PyInts, code \in NativeInts : requestTrackingConv(x, code)
  \/ \E x \in PyInts, code \in NativeInts : calibrateConv(x, code)

SpecConv == InitConv /\ [][NextConv]_vars

(***************************************************************************)
(* Properties.                                                             *)
(***************************************************************************)
\* The connection-closed event of the lost connection is still queued.
ClosePending == \E i \in 1..Len(pending) : pending[i].kind = "connectionClosed"

\* The codes each result type lists.
Documented(op) == IF op = "connect" THEN 0..4 ELSE 0..5

\* C1: after connect() returned SUCCESS every isConnected() call returns
\* true until disconnect() is called or onConnectionClosed fires, and false
\* after either of them, until a later connect() succeeds.  (Between the
\* loss of the connection and the delivery of its callback either answer is
\* accepted.)
C1_IsConnectedFollowsSession ==
  [][isConnected =>
       /\ (sess = "up" /\ ~ClosePending => Truthy(last'.val))
       /\ (sess \in {"remoteClosed", "localClosed"} => ~Truthy(last'.val))]_vars

\* C2: as long as no connect() has returned SUCCESS, a requestTracking(mode)
\* call returns NOT_CONNECTED without raising, this client holds no
\* tracking request, and no sample is queued for or delivered to the sample
\* callback.
C2_RequestTrackingBeforeConnect ==
  sess = "never" =>
    /\ (last.op = "requestTracking" => last.ret = "NOT_CONNECTED" /\ last.exc = "none")
    /\ ~tracking
    /\ seen = <<>>
    /\ \A i \in 1..Len(pending) : pending[i].kind # "sample"

C2_Witness ==
  sess = "never" /\ last.op = "requestTracking" /\ last.ret = "NOT_CONNECTED"

\* C3 as stated: connect(), requestTracking() and calibrate() raise nothing,
\* whatever integer the native entry point returns.
C3_NeverThrown ==
  last.op \in {"connect", "requestTracking", "calibrate"} => last.exc = "none"

\* C3 as amended: called with an integer argument, each of the three methods
\* returns a member of its result type exactly when the native entry point
\* returns one of the codes that type lists (0..4 for connect, 0..5 for
\* requestTracking and calibrate); for any other integer the enum lookup
\* raises ValueError.
C3_ThrownOnlyOutsideDocumentedCodes ==
  last.op \in {"connect", "requestTracking", "calibrate"} =>
    /\ (last.code \in Documented(last.op) => last.exc = "none" /\ last.ret # "none")
    /\ (last.code \notin Documented(last.op) => last.exc = "ValueError")

C3_Witness ==
  last.op = "connect" /\ last.code = 4 /\ last.ret = "TIMEOUT" /\ last.exc = "none"

\* C4: a calibrate() call issued while a calibration is in progress (for a
\* blocked calibrate() call of this client, or for another client) returns
\* ALREADY_CALIBRATING at once: the caller does not block, and connection,
\* tracking and the calibration in progress stay as they are.
C4_CalibrateWhileCalibrating ==
  [][\A t \in Threads, x \in PyInts :
       (calibrate(t, x) /\ calib # "none") =>
         /\ last'.op = "calibrate"
         /\ last'.ret = "ALREADY_CALIBRATING"
         /\ last'.exc = "none"
         /\ UNCHANGED <<pc, connected, tracking, calib, pending, srvIndex, nFrames>>]_vars

C4_Witness ==
  /\ calib = "self"
  /\ \E t \in Threads : pc[t] = "calibrate"
  /\ last.op = "calibrate"
  /\ last.ret = "ALREADY_CALIBRATING"

\* C5: once disconnect() has returned, the delivery thread calls no handler
\* of any of the five slots (until a later connect() succeeds); in
\* particular none after the scenario connect, requestTracking(0), a sample,
\* unrequestTracking(), disconnect().
C5_NoCallbackAfterDisconnect ==
  [][(Deliver /\ Fires) => (sess # "localClosed" /\ scen # 5)]_vars

C5_Witness == scen = 5 /\ last.op = "disconnect" /\ sess = "localClosed"

\* C6: elDestroyApi is called only for a session that elInitApi created, by
\* the object that was constructed for it, and not while another live
\* object uses the session.
C6_ReleasedOnlyAfterInit ==
  [][\A o \in Objs :
       ELApi_del(o) =>
         /\ inited
         /\ obj[o] = "live"
         /\ \A p \in Objs \ {o} : obj[p] # "live"]_vars

\* C7: isConnected() changes nothing: not the connection and tracking
\* state, not the callback registrations, not the argtypes and restype
\* configured on any native entry point.
C7_IsConnectedChangesNothing ==
  [][isConnected =>
       UNCHANGED <<sig, inited, cbs, connected, tracking, calib, pending>>]_vars

\* C8: after connect() returned NOT_INITED, VERSION_MISMATCH or TIMEOUT the
\* session is not connected and otherwise as before, and isConnected() is
\* false; after ALREADY_CONNECTED the connection is still established.
C8_ConnectFailureLeavesSession ==
  /\ [][connect =>
          /\ (last'.ret \in {"NOT_INITED", "VERSION_MISMATCH", "TIMEOUT"} =>
                ~connected' /\ UNCHANGED <<inited, cbs, tracking, calib, pending>>)
          /\ (last'.ret = "ALREADY_CONNECTED" => connected /\ connected')]_vars
  /\ [][(isConnected /\ last.op = "connect"
           /\ last.ret \in {"NOT_INITED", "VERSION_MISMATCH", "TIMEOUT"}) =>
          ~Truthy(last'.val)]_vars

\* C9: requestTracking with a mode index outside 0 .. #modes-1, called on a
\* connected session, returns INVALID_FRAMERATE_MODE and leaves tracking and
\* the connection as they are.
C9_OutOfRangeMode ==
  [][\A x \in PyInts :
       (requestTracking(x) /\ connected /\ ~InRange(x, NumFrameRateModes)) =>
         /\ last'.ret = "INVALID_FRAMERATE_MODE"
         /\ connected'
         /\ UNCHANGED <<tracking, pending, srvIndex>>]_vars

Closes(q) == Len(SelectSeq(q, LAMBDA e : e.kind = "connectionClosed"))

\* C11: when the server ends the connection, one connection-closed event is
\* queued for that loss and no other step queues one, so the handler bound
\* to the slot is called once for it; and once that event has been
\* delivered, every isConnected() call returns false (until a later
\* connect() succeeds).
C11_ClosedOnceThenNotConnected ==
  /\ [][ServerDown => Closes(pending') = Closes(Purge(pending)) + 1]_vars
  /\ [][~ServerDown => Closes(pending') <= Closes(pending)]_vars
  /\ [][(isConnected /\ sess = "remoteClosed" /\ "connectionClosed" \in cbs) =>
          ~Truthy(last'.val)]_vars

\* C12: unrequestTracking() called while this client holds no tracking
\* request (it never requested tracking, or the request was rejected or has
\* ended) returns None, raises nothing and changes nothing in the session:
\* not the connection, not the tracking and calibration state, not the
\* callback registrations, not what is queued for delivery.
C12_UnrequestWithoutRequest ==
  [][(unrequestTracking /\ ~tracking) =>
       /\ last'.op = "unrequestTracking"
       /\ last'.ret = "None"
       /\ last'.exc = "none"
       /\ UNCHANGED <<pc, inited, cbs, connected, tracking, calib, pending,
                      srvIndex, nFrames>>]_vars

C12_Witness ==
  /\ last.op = "unrequestTracking"
  /\ last.ret = "None"
  /\ sess = "never"
  /\ inited

C14_SlotsFixedAtInit ==
  [][(cbs' # cbs \/ inited' # inited \/ sig'["elInitApi"] # sig["elInitApi"]) =>
       ~(\/ connect
         \/ disconnect
         \/ isConnected
         \/ \E x \in PyInts : requestTracking(x)
         \/ unrequestTracking
         \/ \E t \in Threads, x \in PyInts : calibrate(t, x)
         \/ \E t \in Threads : calibrateReturn(t))]_vars

C14_Witness ==
  /\ cbs = {"sample", "connectionClosed"}
  /\ inited
  /\ last.op = "disconnect"
  /\ sess = "localClosed"

\* C15: a call in the wrong state is answered by a result code, not by an
\* exception: calibrate() on a session that is not connected returns
\* NOT_CONNECTED, calibrate() on a connected session without a tracking
\* request of this client returns NOT_TRACKING (neither blocks), and
\* connect() on a session that is not initialized returns NOT_INITED.
C15_OrderingErrorsByCode ==
  /\ [][(~connected /\ \E t \in Threads, x \in PyInts : calibrate(t, x)) =>
          /\ last'.op = "calibrate"
          /\ last'.ret = "NOT_CONNECTED"
          /\ last'.exc = "none"
          /\ pc' = pc]_vars
  /\ [][(connected /\ ~tracking /\ \E t \in Threads, x \in PyInts : calibrate(t, x)) =>
          /\ last'.op = "calibrate"
          /\ last'.ret = "NOT_TRACKING"
          /\ last'.exc = "none"
          /\ pc' = pc]_vars
  /\ [][(~inited /\ connect) =>
          /\ last'.op = "connect"
          /\ last'.ret = "NOT_INITED"
          /\ last'.exc = "none"
          /\ ~connected']_vars

C15_Witness ==
  /\ \E o \in Objs : obj[o] = "live"
  /\ ~inited
  /\ last.op = "connect"
  /\ last.ret = "NOT_INITED"
  /\ last.exc = "none"

\* C16: every constructor call completes without raising and leaves the
\* native session initialized, whether the client name and each of the five
\* callbacks is null or not.
C16_InitAcceptsNulls ==
  last.op = "init" => (last.exc = "none" /\ inited /\ \E o \in Objs : obj[o] = "live")

\* The sample events in a queue.
Samples(q) == Len(SelectSeq(q, LAMBDA e : e.kind = "sample"))

\* C17: the sample handler is called only while this client holds a
\* tracking request; the removal of the device (which queues
\* onDeviceDisconnected and, for tracking in progress, onTrackingStopped)
\* ends the request and drops the samples still queued, without any
\* unrequestTracking(); and the request comes back only with a
\* requestTracking() call that returns SUCCESS.
C17_SamplesOnlyWhileTracking ==
  /\ [][(Deliver /\ Fires /\ Head(pending).kind = "sample") => tracking]_vars
  /\ [][DeviceDetach => (~tracking' /\ Samples(pending') = 0)]_vars
  /\ [][(~tracking /\ tracking') =>
          (last'.op = "requestTracking" /\ last'.ret = "SUCCESS" /\ last'.exc = "none")]_vars

C17_Witness ==
  /\ last.op = "requestTracking"
  /\ last.ret = "SUCCESS"
  /\ connected
  /\ ~tracking
  /\ ~device
  /\ cbs = Slots
  /\ pending = <<>>

C19_CallbacksKeptAlive ==
  [][((Deliver \/ DeliverCrash) /\ Fires) => Alive(Head(pending).kind)]_vars

\* The members each result type is documented with, in the order of their
\* values from 0.
ConnectMembers ==
  <<"SUCCESS", "NOT_INITED", "ALREADY_CONNECTED", "VERSION_MISMATCH", "TIMEOUT">>
StartMembers ==
  <<"SUCCESS", "NOT_CONNECTED", "DEVICE_MISSING", "INVALID_FRAMERATE_MODE",
    "ALREADY_RUNNING_DIFFERENT_FRAMERATE", "FAILURE">>
CalibrateMembers ==
  <<"SUCCESS", "NOT_CONNECTED", "NOT_TRACKING", "INVALID_CALIBRATION_MODE",
    "ALREADY_CALIBRATING", "FAILURE">>

\* C20: for every code of the documented range the native entry point
\* returns, connect(), requestTracking() and calibrate() return the member
\* of their own result type that has that value: connect the member at
\* 0..4, requestTracking and calibrate the member at 0..5.
C20_MemberOfReturnedCode ==
  /\ (last.op = "connect" /\ last.code \in 0..4) =>
        (last.exc = "none" /\ last.ret = ConnectMembers[last.code + 1])
  /\ (last.op = "requestTracking" /\ last.code \in 0..5) =>
        (last.exc = "none" /\ last.ret = StartMembers[last.code + 1])
  /\ (last.op = "calibrate" /\ last.code \in 0..5) =>
        (last.exc = "none" /\ last.ret = CalibrateMembers[last.code + 1])

C20_Witness ==
  /\ last.op = "requestTracking"
  /\ last.code = 4
  /\ last.ret = "ALREADY_RUNNING_DIFFERENT_FRAMERATE"
  /\ last.exc = "none"

====
